---- MODULE Spec2Model ----
(***************************************************************************)
(* Onboarding task tracking of huminity-connect: the onboarding_checklist  *)
(* table with its row-level policies and CHECK constraints, the status     *)
(* mutations of the HR and employee dashboards, the useOnboarding hooks    *)
(* and the template expansion (database function and client loop).         *)
(*                                                                         *)
(* A database statement is atomic.  Spec runs a handler that issues one    *)
(* statement as one action; SpecRace splits the HR dashboard's mutation at *)
(* its await, so that two requests can be outstanding at the same time.    *)
(*                                                                         *)
(* The lists the dashboards render are react-query caches: a snapshot      *)
(* fetched at some earlier time.  Every row is inserted with status        *)
(* 'pending', so any row the SELECT policies show to a user can be in that *)
(* user's list, with a pending status, when a button is clicked.           *)
(*                                                                         *)
(* SpecStats reads the statistics of the hooks over the rows the table can *)
(* hold, SpecProgress applies calculateProgress to task counts, SpecDue    *)
(* runs the template function on later days, SpecPermissions the two       *)
(* permission checks, SpecEmployees the writes of the employees table.     *)
(*                                                                         *)
(* SpecAudit follows the audit log through employee and profile changes    *)
(* and the deletion of a user, SpecNotify the handlers that notify after   *)
(* their statement, SpecCompletion the completion flag next to the status, *)
(* SpecViews what the management components render, SpecCache the two      *)
(* fetches of the organisation-wide hook, SpecTickets the numbering of     *)
(* support tickets with an insert split at its commit.                     *)
(***************************************************************************)
EXTENDS Integers, Sequences, FiniteSets, TLC

\* ---------------------------------------------------------------- bounds
\* rows the table can hold
MaxTasks == 2
\* blueprints of a client-side template that are applied
MaxBlueprints == 2
\* ticks the clock can advance
MaxNow == 4

\* ------------------------------------------------------- database schema
NULL == "NULL"
NoDate == -1
\* text values are sequences of characters; the SQL NULL of a text column
NoText == <<"NULL">>

\* profiles rows: user_id -> role
Users == {"hr", "adm", "mgr", "emp"}
RoleOf == [u \in Users |->
            CASE u = "hr" -> "hr"
              [] u = "adm" -> "admin"
              [] u = "mgr" -> "manager"
              [] OTHER -> "employee"]

\* a person with an auth.users row but no session in the model, and the
\* caller of a request that carries no session
AllUsers == Users \cup {"new"}
Anon == "anon"

\* employees rows: id -> profile (user) of the person
Employees == {"e_emp", "e_mgr"}
ProfileOf == [e \in Employees |-> IF e = "e_emp" THEN "emp" ELSE "mgr"]
\* employees.hire_date, a day number
HireDate == [e \in Employees |-> 0]
\* the id of a row inserted later
EmployeeIds == Employees \cup {"e_new"}

TaskTypes == {"document", "policy", "it_setup", "training", "general"}
StatusValues == {"pending", "submitted", "verified", "completed", "rejected"}

\* columns of CREATE TABLE onboarding_checklist
ChecklistBaseColumns ==
  {"id", "employee_id", "task_name", "task_description", "assigned_to",
   "is_completed", "completed_by", "completed_at", "due_date", "priority",
   "created_at"}

\* the table after ALTER TABLE ... ADD COLUMN
ChecklistColumns ==
  ChecklistBaseColumns \cup
  {"task_type", "status", "document_url", "validation_result",
   "verified_by", "verified_at", "rejection_reason", "progress_percentage"}

\* the columns the model keeps of a row
RowColumns ==
  {"employee_id", "task_name", "task_type", "status", "due_date",
   "document_url", "rejection_reason", "verified_by", "verified_at",
   "is_completed"}

\* onboarding_templates rows: the 'Default Onboarding' row of the migration
\* (its document and its policy blueprint), and rows an HR user can store under the policy
\* "HR and Admins can manage onboarding templates"
onboarding_templates ==
  [default |->
     [template_name |-> "Default Onboarding", is_active |-> TRUE,
      tasks |-> << [task_name |-> "Upload Identity Document",
                    task_type |-> "document", due_days |-> 3],
                   [task_name |-> "Employment Contract Acknowledgment",
                    task_type |-> "policy", due_days |-> 2] >>],
   typo |->
     [template_name |-> "Contractor", is_active |-> TRUE,
      tasks |-> << [task_name |-> "Safety Training",
                    task_type |-> "training", due_days |-> 1],
                   [task_name |-> "Badge", task_type |-> "badge",
                    due_days |-> 1] >>],
   empty |->
     [template_name |-> "Blank", is_active |-> TRUE, tasks |-> << >>],
   retired |->
     [template_name |-> "Old", is_active |-> FALSE,
      tasks |-> << [task_name |-> "Fax Number", task_type |-> "general",
                    due_days |-> 1] >>]]

TemplateIds == DOMAIN onboarding_templates

VARIABLES
  checklist,   \* onboarding_checklist: id -> row
  nextId,      \* number of ids handed out so far (gen_random_uuid is fresh)
  now,         \* the current time, in ticks since the system went live
  role,        \* profiles.role by user_id; NULL where there is no profile
  employees,   \* employees: id -> row
  is_active,   \* onboarding_templates.is_active by template id
  details,     \* employee_onboarding_details: employee_id of each row
  permissions, \* per session: the rows usePermissions has loaded
  mutation,    \* per session: state of the HR dashboard's verifyTaskMutation
  loop,        \* OnboardingTemplates.applyTemplate: the loop over the template
  audit_logs,  \* audit_logs: the rows in the order of their insertion
  notifications, \* notifications: the rows in the order of their insertion
  tickets,     \* support_tickets: the row versions in the order of insertion
  cache,       \* the state of one mounted organisation-wide useOnboarding hook
  last         \* what the most recent operation was and how it ended

vars == <<checklist, nextId, now, role, employees, is_active, details,
         permissions,
          mutation, loop, audit_logs, notifications, tickets, cache, last>>

NoOp == [op |-> "none"]
Idle == [state |-> "idle"]
\* the hook before it is mounted
NoCache == [state |-> "unmounted"]

\* ------------------------------------------------------------------ time
\* a DATE is a day number, a timestamp a number of ticks; a day has two
TicksPerDay == 2
\* CURRENT_DATE, and the date part of new Date().toISOString()
CURRENT_DATE == now \div TicksPerDay
\* time passes
Tick ==
  /\ now < MaxNow
  /\ now' = now + 1
  /\ last' = NoOp
  /\ UNCHANGED <<checklist, nextId, role, employees, is_active, details, audit_logs, notifications,
                 tickets, cache, permissions,
                 mutation, loop>>

\* ------------------------------------------------------ row-level security
\* SELECT role FROM profiles WHERE user_id = auth.uid(); NULL for a request
\* without a session and for a user without a profile
get_current_user_role(u) == IF u \in DOMAIN role THEN role[u] ELSE NULL

IsAdminOrHR(u) == get_current_user_role(u) \in {"admin", "hr"}

\* SELECT e.id FROM employees e JOIN profiles p ... WHERE p.user_id = auth.uid()
OwnEmployees(u) == {e \in DOMAIN employees : employees[e].profile_id = u}

\* "Admins and HR can view all onboarding tasks",
\* "Users can view their own onboarding tasks"
CanSelect(u, row) == IsAdminOrHR(u) \/ row.employee_id \in OwnEmployees(u)

\* "Admins and HR can manage onboarding tasks" FOR ALL: the only policy for
\* INSERT, UPDATE and DELETE
CanManage(u) == IsAdminOrHR(u)

\* rows of the table a user's query returns
Visible(u) == {t \in DOMAIN checklist : CanSelect(u, checklist[t])}

\* ------------------------------------------------------------ constraints
RowViolatesCheck(row) ==
  \/ row.task_name = NULL
  \/ row.task_type \notin TaskTypes
  \/ row.status \notin StatusValues
  \/ row.employee_id \notin DOMAIN employees

\* a row as INSERT builds it: column defaults for what the statement omits
DefaultRow ==
  [employee_id |-> NULL, task_name |-> NULL, task_type |-> "general",
   status |-> "pending", due_date |-> NoDate, document_url |-> NoText,
   rejection_reason |-> NoText, verified_by |-> NULL, verified_at |-> NoDate,
   is_completed |-> FALSE]

Merge(row, patch) ==
  [c \in RowColumns |-> IF c \in DOMAIN patch THEN patch[c] ELSE row[c]]

\* supabase.from('onboarding_checklist').insert([row]) issued by user u:
\* <<error, table afterwards>>.  lost: the request did not reach the database.
Insert(u, id, values, lost) ==
  IF lost THEN <<"FetchError", checklist>>
  ELSE IF ~CanManage(u) THEN <<"42501", checklist>>
  ELSE IF RowViolatesCheck(Merge(DefaultRow, values))
    THEN <<"23514", checklist>>
  ELSE <<"none", id :> Merge(DefaultRow, values) @@ checklist>>

\* supabase.from('onboarding_checklist').update(patch).eq('id', id) issued
\* by user u: <<error, rows updated, table afterwards>>.  A row the policies
\* hide from the statement is skipped without an error.
Update(u, id, patch) ==
  IF ~(DOMAIN patch \subseteq ChecklistColumns)
    THEN <<"PGRST204", 0, checklist>>
  ELSE IF id \notin DOMAIN checklist
    THEN <<"none", 0, checklist>>
  ELSE IF ~CanSelect(u, checklist[id]) \/ ~CanManage(u)
    THEN <<"none", 0, checklist>>
  ELSE IF RowViolatesCheck(Merge(checklist[id], patch))
    THEN <<"23514", 0, checklist>>
  ELSE <<"none", 1, [checklist EXCEPT ![id] = Merge(@, patch)]>>

\* .select().single() after the update: no row returned is an error
Single(res) == IF res[1] = "none" /\ res[2] = 0 THEN "PGRST116" ELSE res[1]

\* what a mutation reports: the error it throws, or success
Outcome(err) == IF err = "none" THEN "success" ELSE err

\* ------------------------------------------------------------- JavaScript
\* String.prototype.trim on a sequence of characters
RECURSIVE TrimLeft(_)
TrimLeft(s) == IF s # <<>> /\ Head(s) = " " THEN TrimLeft(Tail(s)) ELSE s

RECURSIVE TrimRight(_)
TrimRight(s) ==
  IF s # <<>> /\ s[Len(s)] = " " THEN TrimRight(SubSeq(s, 1, Len(s) - 1)) ELSE s

trim(s) == TrimRight(TrimLeft(s))

\* if (x): a string is truthy unless it is empty
Truthy(s) == s # <<>>

\* what the reject dialog's textarea can hold
Reasons == {<<>>, <<" ">>, <<"x">>}

\* ------------------------------------------------ JavaScript numbers
\* A number is an IEEE 754 double.  A non-negative one is kept as [m, s]:
\* its significand m, an integer of at most MantissaBits bits, and the
\* count s of those bits that follow the binary point: the value is
\* m / 2^s.  An integer that wide is kept as its digits in base LimbBase,
\* most significant first; zero has no digits.
MantissaBits == 53
LimbBits == 15
LimbBase == 2^LimbBits

Front(n) == SubSeq(n, 1, Len(n) - 1)
Last(n) == n[Len(n)]

RECURSIVE ToInt(_)
ToInt(n) == IF n = <<>> THEN 0 ELSE ToInt(Front(n)) * LimbBase + Last(n)

RECURSIVE Normalize(_)
Normalize(n) ==
  IF n = <<>> THEN <<>>
  ELSE IF n[1] = 0 THEN Normalize(Tail(n))
  ELSE n

RECURSIVE Bits(_)
Bits(k) == IF k = 0 THEN 0 ELSE 1 + Bits(k \div 2)

BitLength(n) ==
  IF Normalize(n) = <<>> THEN 0
  ELSE (Len(Normalize(n)) - 1) * LimbBits + Bits(Normalize(n)[1])

IsOdd(n) == n # <<>> /\ Last(n) % 2 = 1

RECURSIVE Increment(_)
Increment(n) ==
  IF n = <<>> THEN <<1>>
  ELSE IF Last(n) < LimbBase - 1 THEN Front(n) \o <<Last(n) + 1>>
  ELSE Increment(Front(n)) \o <<0>>

\* n * k + carry, exactly, for k <= LimbBase and carry < LimbBase
RECURSIVE TimesCarry(_, _, _)
TimesCarry(n, k, carry) ==
  IF n = <<>> THEN (IF carry = 0 THEN <<>> ELSE <<carry>>)
  ELSE TimesCarry(Front(n), k, (Last(n) * k + carry) \div LimbBase)
         \o <<(Last(n) * k + carry) % LimbBase>>

\* n mod d and n div d, for 0 < d <= LimbBase
RECURSIVE Remainder(_, _)
Remainder(n, d) ==
  IF n = <<>> THEN 0
  ELSE (Remainder(Front(n), d) * LimbBase + Last(n)) % d

Quotient(n, d) ==
  [i \in 1..Len(n) |->
     (Remainder(SubSeq(n, 1, i - 1), d) * LimbBase + n[i]) \div d]

ShiftLeft(n, bits) ==
  TimesCarry(n \o [i \in 1..(bits \div LimbBits) |-> 0], 2^(bits % LimbBits), 0)

ShiftRight(n, bits) ==
  IF bits \div LimbBits >= Len(n) THEN <<>>
  ELSE Quotient(SubSeq(n, 1, Len(n) - bits \div LimbBits), 2^(bits % LimbBits))

\* n / d rounded to the nearest integer, ties to the even one
RoundedQuotient(n, d) ==
  IF 2 * Remainder(n, d) > d \/ (2 * Remainder(n, d) = d /\ IsOdd(Quotient(n, d)))
  THEN Increment(Quotient(n, d))
  ELSE Quotient(n, d)

\* the double nearest to m / 2^s
RoundToDouble(x) ==
  IF BitLength(x.m) <= MantissaBits THEN x
  ELSE [m |-> RoundedQuotient(x.m, 2^(BitLength(x.m) - MantissaBits)),
        s |-> x.s - (BitLength(x.m) - MantissaBits)]

\* how many zero bits follow the binary point of r / t, for 0 < r < t
RECURSIVE LeadingZeros(_, _)
LeadingZeros(r, t) == IF 2 * r >= t THEN 0 ELSE 1 + LeadingZeros(2 * r, t)

\* c / t for integers 0 <= c <= t, t > 0
Divide(c, t) ==
  IF c = 0 THEN [m |-> <<>>, s |-> 0]
  ELSE IF c = t THEN [m |-> <<1>>, s |-> 0]
  ELSE [m |-> RoundedQuotient(ShiftLeft(<<c>>, LeadingZeros(c, t) + MantissaBits), t),
        s |-> LeadingZeros(c, t) + MantissaBits]

\* x * k for a small integer k
Multiply(x, k) == RoundToDouble([m |-> TimesCarry(x.m, k, 0), s |-> x.s])

\* Math.round: floor(x + 1/2)
MathRound(x) ==
  IF x.s = 0 THEN ToInt(x.m)
  ELSE (ToInt(ShiftRight(x.m, x.s - 1)) + 1) \div 2

\* calculateProgress on a list of length tasks, completedTasks of them
\* completed or verified
calculateProgress(completedTasks, length) ==
  IF length = 0 THEN 0
  ELSE MathRound(Multiply(Divide(completedTasks, length), 100))

\* ---------------------------------------------------------------- actions
Init ==
  /\ checklist = <<>>
  /\ nextId = 0
  /\ now = 0
  /\ role = [u \in AllUsers |-> IF u \in Users THEN RoleOf[u] ELSE NULL]
  /\ employees = [e \in Employees |->
                    [profile_id |-> ProfileOf[e], hire_date |-> HireDate[e],
                     status |-> "active"]]
  /\ is_active = [t \in TemplateIds |->
                    onboarding_templates[t].is_active]
  /\ permissions = [u \in Users |-> {}]
  /\ audit_logs = <<>>
  /\ details = <<>>
  /\ notifications = <<>>
  /\ tickets = <<>>
  /\ cache = NoCache
  /\ mutation = [u \in Users |-> Idle]
  /\ loop = Idle
  /\ last = NoOp

\* useOnboarding().addTask: insert one row, errors are caught and toasted
addTask(u, e, due, lost) ==
  /\ nextId < MaxTasks
  /\ LET res == Insert(u, nextId + 1,
                       [employee_id |-> e, task_name |-> "task",
                        due_date |-> due], lost)
     IN /\ checklist' = res[2]
        /\ nextId' = IF res[1] = "none" THEN nextId + 1 ELSE nextId
        /\ last' = [op |-> "addTask", user |-> u, outcome |-> Outcome(res[1])]
  /\ UNCHANGED <<now, role, employees, is_active, details, audit_logs, notifications,
                 tickets, cache, permissions, mutation, loop>>

\* ------------------------------------------------ HROnboardingDashboard
\* verifyTaskMutation.mutationFn: the patch it sends
verifyPatch(status, reason, at) ==
  IF Truthy(reason)
    THEN [status |-> status, verified_at |-> at, rejection_reason |-> reason]
    ELSE [status |-> status, verified_at |-> at]

\* the route renders HROnboardingDashboard for every role but 'employee'
OnHRDashboard(u) == role[u] # "employee"
\* handleReject's guard without the trim(): a reason of blanks would pass
RejectRefusedNoTrim(selectedTask, rejectionReason) ==
  selectedTask = 0 \/ ~Truthy(rejectionReason)

\* handleReject's guard; selectedTask = 0 stands for null
RejectRefused(selectedTask, rejectionReason) ==
  selectedTask = 0 \/ ~Truthy(trim(rejectionReason))

\* verifyTaskMutation run to completion in one step
verifyTaskMutation(u, op, taskId, status, reason) ==
  LET res == Update(u, taskId, verifyPatch(status, reason, now))
  IN /\ checklist' = res[3]
     /\ last' = [op |-> op, user |-> u, task |-> taskId, status |-> status,
                 reason |-> reason, outcome |-> Outcome(res[1])]
     /\ UNCHANGED <<nextId, now, role, employees, is_active, details, audit_logs, notifications,
                 tickets, cache, permissions, mutation, loop>>

handleApprove(u, task) ==
  /\ OnHRDashboard(u)
  /\ task \in Visible(u)
  /\ verifyTaskMutation(u, "handleApprove", task, "verified", <<>>)

handleReject(u, selectedTask, rejectionReason) ==
  /\ OnHRDashboard(u)
  /\ selectedTask \in Visible(u) \cup {0}
  /\ IF RejectRefused(selectedTask, rejectionReason)
       THEN /\ last' = [op |-> "handleReject", user |-> u,
                        task |-> selectedTask, status |-> "rejected",
                        reason |-> rejectionReason,
                        outcome |-> "Rejection Reason Required"]
            /\ UNCHANGED <<checklist, nextId, now, role, employees, is_active, details, audit_logs, notifications,
                 tickets, cache, permissions, mutation, loop>>
       ELSE verifyTaskMutation(u, "handleReject", selectedTask, "rejected",
                               rejectionReason)

\* --------------------------------------------- EmployeeOnboardingDashboard
\* the route renders EmployeeOnboardingDashboard for the role 'employee'
OnEmployeeDashboard(u) == role[u] = "employee"

\* the dashboard's query: the rows of the employee record of the profile
MyTasks(u) ==
  {t \in Visible(u) : checklist[t].employee_id \in OwnEmployees(u)}

\* updateTaskMutation.mutationFn: the patch it sends
updatePatch(status, documentUrl) ==
  IF Truthy(documentUrl)
    THEN [status |-> status, document_url |-> documentUrl]
    ELSE [status |-> status]

\* updateTaskMutation run to completion: update().eq() reports no error
\* when the policies leave it no row to update
updateTaskMutation(u, op, taskId, status, documentUrl) ==
  LET res == Update(u, taskId, updatePatch(status, documentUrl))
  IN /\ checklist' = res[3]
     /\ last' = [op |-> op, user |-> u, task |-> taskId, status |-> status,
                 reason |-> <<>>, outcome |-> Outcome(res[1])]
     /\ UNCHANGED <<nextId, now, role, employees, is_active, details, audit_logs, notifications,
                 tickets, cache, permissions, mutation, loop>>

\* names of the files a user can pick
Files == {<<"f">>}

\* notifications the table can hold
MaxNotes == 1

\* supabase.rpc('create_notification', ...): <<error, notifications
\* afterwards>>.  SECURITY DEFINER; notifications.user_id is NOT NULL.
\* lost: the request failed.
create_notification(p_user_id, p_title, lost) ==
  IF lost THEN <<"FetchError", notifications>>
  ELSE IF p_user_id = NULL THEN <<"23502", notifications>>
  ELSE <<"none", Append(notifications,
                        [user_id |-> p_user_id, title |-> p_title])>>

\* an rpc whose failure rejects the awaited promise
awaitRpcThrowing(res) == res[1]

\* await supabase.rpc(...): the promise resolves to {data, error} and the
\* handlers do not read it; what the await throws
awaitRpc(res) == "none"

\* getActionButton offers the upload for a document task whose cached
\* status is pending or rejected.  The mutation, then the notification.
handleFileUpload(u, taskId, file, lost) ==
  LET res == Update(u, taskId,
                    updatePatch("submitted", <<"uploads/">> \o file))
      note == create_notification(u, "Document Uploaded", lost)
      sent == res[1] = "none"
  IN /\ OnEmployeeDashboard(u)
     /\ taskId \in MyTasks(u)
     /\ checklist[taskId].task_type = "document"
     /\ Len(notifications) < MaxNotes
     /\ checklist' = res[3]
     /\ notifications' = IF sent THEN note[2] ELSE notifications
     /\ last' = [op |-> "handleFileUpload", user |-> u, task |-> taskId,
                 status |-> "submitted", reason |-> <<>>,
                 notification |-> IF sent THEN note[1] ELSE "not sent",
                 outcome |-> IF sent THEN Outcome(awaitRpc(note))
                             ELSE Outcome(res[1])]
     /\ UNCHANGED <<nextId, now, role, employees, is_active, details,
                    audit_logs, tickets, cache, permissions, mutation, loop>>

\* a dashboard that offered the completion button for every kind of task
CompleteOfferedAnyKind(task) == task.task_type \in TaskTypes

\* getActionButton offers Acknowledge / Mark Complete for a policy or
\* training task whose cached status is pending; no button for other kinds
CompleteOffered(task) == task.task_type \in {"policy", "training"}

\* the click on Acknowledge / Mark Complete
handleCompleteTask(u, taskId) ==
  /\ OnEmployeeDashboard(u)
  /\ taskId \in MyTasks(u)
  /\ CompleteOffered(checklist[taskId])
  /\ updateTaskMutation(u, "handleCompleteTask", taskId, "completed", <<>>)

\* ----------------------------------------------- useOnboarding(employeeId)
\* updateTaskStatus.mutationFn: the patch it sends; undefined is <<>>
statusPatch(status, documentUrl, rejectionReason) ==
  [status |-> status, updated_at |-> now]
    @@ (IF Truthy(documentUrl) THEN [document_url |-> documentUrl] ELSE <<>>)
    @@ (IF Truthy(rejectionReason)
          THEN [rejection_reason |-> rejectionReason] ELSE <<>>)
    @@ (IF status = "verified" THEN [verified_at |-> now] ELSE <<>>)

\* the hook's tasks query: the rows of employeeId, or of the own employee
updateTaskStatus(u, taskId, status, documentUrl, rejectionReason) ==
  /\ taskId \in Visible(u)
  /\ LET res == Update(u, taskId,
                       statusPatch(status, documentUrl, rejectionReason))
     IN /\ checklist' = res[3]
        /\ last' = [op |-> "updateTaskStatus", user |-> u, task |-> taskId,
                    status |-> status, reason |-> rejectionReason,
                    outcome |-> Outcome(Single(res))]
  /\ UNCHANGED <<nextId, now, role, employees, is_active, details, audit_logs, notifications,
                 tickets, cache, permissions, mutation, loop>>

\* ------------------------------------------------------- template engine
\* the lookup without its is_active conditions
template_tasksOfAnyRow(p_template_id) ==
  LET found ==
        IF p_template_id = NULL
          THEN {t \in TemplateIds :
                  onboarding_templates[t].template_name = "Default Onboarding"}
          ELSE {t \in TemplateIds : t = p_template_id}
  IN IF found = {} THEN [is_null |-> TRUE, tasks |-> << >>]
     ELSE [is_null |-> FALSE,
           tasks |-> onboarding_templates[CHOOSE t \in found : TRUE].tasks]

\* SELECT tasks INTO template_tasks ...; p_template_id = NULL asks for the
\* default.  No row selected leaves template_tasks NULL.
template_tasks(p_template_id) ==
  LET found ==
        IF p_template_id = NULL
          THEN {t \in TemplateIds :
                  /\ onboarding_templates[t].template_name = "Default Onboarding"
                  /\ is_active[t]}
          ELSE {t \in TemplateIds :
                  t = p_template_id /\ is_active[t]}
  IN IF found = {} THEN [is_null |-> TRUE, tasks |-> << >>]
     ELSE [is_null |-> FALSE,
           tasks |-> onboarding_templates[CHOOSE t \in found : TRUE].tasks]

\* the row one pass of the FOR loop inserts
TemplateRow(p_employee_id, task) ==
  Merge(DefaultRow,
        [employee_id |-> p_employee_id, task_name |-> task.task_name,
         task_type |-> task.task_type, due_date |-> CURRENT_DATE + task.due_days,
         status |-> "pending"])

\* the rows in the opposite order
TemplateRowsReversed(p_employee_id, tasks) ==
  [i \in 1..Len(tasks) |->
     TemplateRow(p_employee_id, tasks[Len(tasks) + 1 - i])]

\* the rows of the FOR loop over jsonb_array_elements(template_tasks)
TemplateRows(p_employee_id, tasks) ==
  [i \in 1..Len(tasks) |-> TemplateRow(p_employee_id, tasks[i])]

\* create_onboarding_tasks_from_template, called through supabase.rpc by
\* useOnboarding().generateTasksFromTemplate.  SECURITY DEFINER: the
\* statements run as the function's owner, the policies do not apply.  The
\* function is one transaction: an insert that raises undoes the others.
create_onboarding_tasks_from_template(u, p_employee_id, p_template_id) ==
  LET found == template_tasks(p_template_id)
      rows == IF found.is_null THEN << >>
              ELSE TemplateRows(p_employee_id, found.tasks)
      raises == \E i \in 1..Len(rows) : RowViolatesCheck(rows[i])
  IN /\ nextId + Len(rows) <= MaxTasks
     /\ IF raises
          THEN UNCHANGED <<checklist, nextId>>
          ELSE /\ checklist' =
                    [i \in (nextId + 1)..(nextId + Len(rows)) |->
                       rows[i - nextId]] @@ checklist
               /\ nextId' = nextId + Len(rows)
     /\ last' = [op |-> "generateTasksFromTemplate", user |-> u,
                 employee |-> p_employee_id, template |-> p_template_id,
                 first |-> nextId + 1, count |-> Len(rows),
                 outcome |-> IF raises THEN "23514" ELSE "success"]
     /\ UNCHANGED <<now, role, employees, is_active, details, audit_logs, notifications,
                 tickets, cache, permissions, mutation, loop>>

\* --------------------------------------------- OnboardingTemplates (client)
\* defaultTemplates[0], 'Standard Employee Onboarding'
standardTasks ==
  << [task_name |-> "IT Setup", due_days |-> 1],
     [task_name |-> "HR Documentation", due_days |-> 3],
     [task_name |-> "Office Tour", due_days |-> 0],
     [task_name |-> "Training Schedule", due_days |-> 7],
     [task_name |-> "Payroll Setup", due_days |-> 5] >>

Min(a, b) == IF a < b THEN a ELSE b

\* the templates the screen offers, cut to MaxBlueprints blueprints
defaultTemplates ==
  { SubSeq(standardTasks, 1, Min(n, Len(standardTasks))) : n \in 0..MaxBlueprints }

\* applyTemplate up to its first await; employeeId "" is no selection
applyTemplate(u, template, employeeId) ==
  /\ loop.state # "running"
  /\ IF employeeId = ""
       THEN UNCHANGED loop
       ELSE loop' = [state |-> IF template = << >> THEN "done" ELSE "running",
                     user |-> u, employee |-> employeeId, tasks |-> template,
                     i |-> 1, created |-> {}, failed |-> FALSE]
  /\ last' = NoOp
  /\ UNCHANGED <<checklist, nextId, now, role, employees, is_active, details, audit_logs, notifications,
                 tickets, cache, permissions, mutation>>

\* one pass of the for loop: await addTask(...).  addTask catches the error
\* of its insert and returns, so the loop goes on to the next blueprint.
applyTemplateStep(lost) ==
  /\ loop.state = "running"
  /\ nextId < MaxTasks
  /\ LET task == loop.tasks[loop.i]
         res == Insert(loop.user, nextId + 1,
                       [employee_id |-> loop.employee,
                        task_name |-> task.task_name,
                        due_date |-> CURRENT_DATE + task.due_days], lost)
         ok == res[1] = "none"
     IN /\ checklist' = res[2]
        /\ nextId' = IF ok THEN nextId + 1 ELSE nextId
        /\ loop' = [loop EXCEPT
                      !.state = IF loop.i = Len(loop.tasks)
                                  THEN "done" ELSE "running",
                      !.i = loop.i + 1,
                      !.created = IF ok THEN @ \cup {nextId + 1} ELSE @,
                      !.failed = @ \/ ~ok]
        /\ last' = [op |-> "addTask", user |-> loop.user,
                    outcome |-> Outcome(res[1])]
  /\ UNCHANGED <<now, role, employees, is_active, details, audit_logs, notifications,
                 tickets, cache, permissions, mutation>>

\* ------------------------------------- HROnboardingDashboard, request by request
\* verifyTaskMutation.mutate(...): the request leaves; the buttons are
\* disabled while the session's mutation is pending.  rivals records the
\* sessions whose request on the same task is outstanding at the same time.
mutate(u, taskId, status, reason) ==
  LET rivals == {v \in Users \ {u} :
                   mutation[v].state = "pending" /\ mutation[v].task = taskId}
  IN /\ mutation[u].state # "pending"
     /\ mutation' =
          [v \in Users |->
             IF v = u
               THEN [state |-> "pending", task |-> taskId, status |-> status,
                     reason |-> reason, at |-> now, rivals |-> rivals]
             ELSE IF v \in rivals
               THEN [mutation[v] EXCEPT !.rivals = @ \cup {u}]
             ELSE mutation[v]]
     /\ UNCHANGED <<checklist, nextId, now, role, employees, is_active, details, audit_logs, notifications,
                 tickets, cache, permissions, loop, last>>

handleApproveSend(u, task) ==
  /\ OnHRDashboard(u)
  /\ task \in Visible(u)
  /\ mutate(u, task, "verified", <<>>)

handleRejectSend(u, selectedTask, rejectionReason) ==
  /\ OnHRDashboard(u)
  /\ selectedTask \in Visible(u) \cup {0}
  /\ IF RejectRefused(selectedTask, rejectionReason)
       THEN /\ last' = [op |-> "handleReject", user |-> u,
                        task |-> selectedTask, status |-> "rejected",
                        reason |-> rejectionReason,
                        outcome |-> "Rejection Reason Required"]
            /\ UNCHANGED <<checklist, nextId, now, role, employees, is_active, details, audit_logs, notifications,
                 tickets, cache, permissions, mutation, loop>>
       ELSE mutate(u, selectedTask, "rejected", rejectionReason)

\* the database executes the request of session u and the mutation settles
verifyTaskMutationSettle(u) ==
  /\ mutation[u].state = "pending"
  /\ LET m == mutation[u]
         res == Update(u, m.task, verifyPatch(m.status, m.reason, m.at))
     IN /\ checklist' = res[3]
        /\ mutation' = [mutation EXCEPT ![u].state =
                          IF res[1] = "none" THEN "success" ELSE "error"]
  /\ UNCHANGED <<nextId, now, role, employees, is_active, details, audit_logs, notifications,
                 tickets, cache, permissions, loop, last>>

\* ------------------------------------------------------------------ Spec
\* the sessions of Spec; the policies do not tell 'admin' from 'hr'
SpecUsers == {"hr", "mgr", "emp"}

Next ==
  \/ \E u \in SpecUsers, e \in Employees : addTask(u, e, NoDate, FALSE)
  \/ \E u \in SpecUsers, e \in Employees :
       create_onboarding_tasks_from_template(u, e, NULL)
  \/ \E u \in SpecUsers, t \in 1..MaxTasks : handleApprove(u, t)
  \/ \E u \in SpecUsers, t \in 0..MaxTasks, r \in Reasons :
       handleReject(u, t, r)
  \/ \E u \in SpecUsers, t \in 1..MaxTasks, f \in Files, lost \in BOOLEAN :
       handleFileUpload(u, t, f, lost)
  \/ \E u \in SpecUsers, t \in 1..MaxTasks : handleCompleteTask(u, t)
  \/ \E u \in SpecUsers, t \in 1..MaxTasks, s \in StatusValues,
        r \in {<<>>, <<"x">>} :
       updateTaskStatus(u, t, s, IF s = "submitted" THEN <<"uploads/", "f">>
                                 ELSE <<>>, r)

Spec == Init /\ [][Next]_vars

\* ------------------------------------------------------------ SpecTemplate
\* onboarding_templates.is_active as the migration leaves it, and after an
\* HR user has switched the 'Default Onboarding' row off
ActiveFlags ==
  { [t \in TemplateIds |-> onboarding_templates[t].is_active],
    [t \in TemplateIds |->
       onboarding_templates[t].is_active
         /\ onboarding_templates[t].template_name # "Default Onboarding"] }

InitTemplate ==
  /\ checklist = <<>>
  /\ nextId = 0
  /\ now = 0
  /\ role = [u \in AllUsers |-> IF u \in Users THEN RoleOf[u] ELSE NULL]
  /\ employees = [e \in Employees |->
                    [profile_id |-> ProfileOf[e], hire_date |-> HireDate[e],
                     status |-> "active"]]
  /\ is_active \in ActiveFlags
  /\ permissions = [u \in Users |-> {}]
  /\ audit_logs = <<>>
  /\ details = <<>>
  /\ notifications = <<>>
  /\ tickets = <<>>
  /\ cache = NoCache
  /\ mutation = [u \in Users |-> Idle]
  /\ loop = Idle
  /\ last = NoOp

NextTemplate ==
  \/ \E u \in SpecUsers, e \in Employees, p \in TemplateIds \cup {NULL} :
       create_onboarding_tasks_from_template(u, e, p)
  \/ \E u \in SpecUsers, t \in defaultTemplates, e \in Employees \cup {""} :
       applyTemplate(u, t, e)
  \/ \E lost \in BOOLEAN : applyTemplateStep(lost)

SpecTemplate == Init /\ [][NextTemplate]_vars

\* ---------------------------------------------------------------- SpecDue
\* the database function on later days, with and without an active default
NextDue ==
  \/ Tick
  \/ \E e \in Employees : addTask("hr", e, NoDate, FALSE)
  \/ \E u \in SpecUsers, e \in Employees, p \in TemplateIds \cup {NULL} :
       create_onboarding_tasks_from_template(u, e, p)

SpecDue == InitTemplate /\ [][NextDue]_vars

\* ---------------------------------------------------------------- SpecRace
\* two sessions that the policies let update every row
RaceUsers == {"hr", "adm"}

NextRace ==
  \/ \E e \in Employees : addTask("hr", e, NoDate, FALSE)
  \/ \E u \in RaceUsers, t \in 1..MaxTasks : handleApproveSend(u, t)
  \/ \E u \in RaceUsers, t \in 0..MaxTasks, r \in Reasons :
       handleRejectSend(u, t, r)
  \/ \E u \in RaceUsers : verifyTaskMutationSettle(u)

SpecRace == Init /\ [][NextRace]_vars

\* --------------------------------------------------------------- SpecStats
\* new Date(value).getTime() of a DATE column, in ticks: midnight of the
\* day; new Date(null) is the epoch, long before every day of the model
Epoch == -1
newDate(due_date) ==
  IF due_date = NoDate THEN Epoch ELSE due_date * TicksPerDay

\* the tasks query of useOnboarding(employeeId): the employee of the
\* argument, or else the employee record of the profile
targetEmployeeId(u, employeeId) ==
  IF employeeId # NULL THEN employeeId
  ELSE IF OwnEmployees(u) # {} THEN CHOOSE e \in OwnEmployees(u) : TRUE
  ELSE NULL

onboardingTasks(u, employeeId) ==
  {t \in Visible(u) : checklist[t].employee_id = targetEmployeeId(u, employeeId)}

\* stats[task.status]++ on a key the object lacks makes it NaN
NaN == "NaN"
undefined == "undefined"

\* getTaskStats over the tasks the query returned
getTaskStats(tasks) ==
  [total |-> Cardinality(tasks),
   pending |-> Cardinality({t \in tasks : checklist[t].status = "pending"}),
   submitted |-> Cardinality({t \in tasks : checklist[t].status = "submitted"}),
   completed |-> Cardinality({t \in tasks : checklist[t].status = "completed"}),
   rejected |-> Cardinality({t \in tasks : checklist[t].status = "rejected"}),
   verified |-> IF \E t \in tasks : checklist[t].status = "verified"
                THEN NaN ELSE undefined,
   overdue |-> Cardinality({t \in tasks :
                 /\ checklist[t].status \in {"pending", "rejected"}
                 /\ newDate(checklist[t].due_date) < now})]

\* the hook as a component reads it: tasks, progress and taskStats
useOnboarding(u, employeeId) ==
  /\ last' = [op |-> "useOnboarding", user |-> u,
              tasks |-> onboardingTasks(u, employeeId),
              progress |->
                calculateProgress(
                  Cardinality({t \in onboardingTasks(u, employeeId) :
                    checklist[t].status \in {"completed", "verified"}}),
                  Cardinality(onboardingTasks(u, employeeId))),
              taskStats |-> getTaskStats(onboardingTasks(u, employeeId))]
  /\ UNCHANGED <<checklist, nextId, now, role, employees, is_active, details, audit_logs, notifications,
                 tickets, cache,
                 permissions, mutation, loop>>

\* the reduce of the sessions query: one record per employee with a task
employeeStats(data) ==
  [e \in {checklist[t].employee_id : t \in data} |->
     [total_tasks |->
        Cardinality({t \in data : checklist[t].employee_id = e}),
      completed_tasks |->
        Cardinality({t \in data :
          /\ checklist[t].employee_id = e
          /\ checklist[t].status \in {"completed", "verified"}}),
      pending_tasks |->
        Cardinality({t \in data :
          /\ checklist[t].employee_id = e
          /\ checklist[t].status \in {"pending", "rejected"}}),
      overdue_tasks |->
        Cardinality({t \in data :
          /\ checklist[t].employee_id = e
          /\ checklist[t].status \in {"pending", "rejected"}
          /\ newDate(checklist[t].due_date) < now})]]

\* the sessions query of the HR dashboard, with its progress percentages
sessions(u) ==
  /\ OnHRDashboard(u)
  /\ last' = [op |-> "sessions", user |-> u, data |-> Visible(u),
              sessions |->
                [e \in DOMAIN employeeStats(Visible(u)) |->
                   [stats |-> employeeStats(Visible(u))[e],
                    progress_percentage |->
                      IF employeeStats(Visible(u))[e].total_tasks > 0
                      THEN MathRound(Multiply(
                             Divide(employeeStats(Visible(u))[e].completed_tasks,
                                    employeeStats(Visible(u))[e].total_tasks),
                             100))
                      ELSE 0]]]
  /\ UNCHANGED <<checklist, nextId, now, role, employees, is_active, details, audit_logs, notifications,
                 tickets, cache,
                 permissions, mutation, loop>>

\* the progress bar of the employee dashboard
EmployeeOnboardingDashboard(u) ==
  /\ OnEmployeeDashboard(u)
  /\ last' = [op |-> "EmployeeOnboardingDashboard", user |-> u,
              tasks |-> MyTasks(u),
              completedTasks |->
                Cardinality({t \in MyTasks(u) :
                  checklist[t].status \in {"completed", "verified"}}),
              totalTasks |-> Cardinality(MyTasks(u)),
              progressPercentage |->
                IF Cardinality(MyTasks(u)) > 0
                THEN MathRound(Multiply(
                       Divide(Cardinality({t \in MyTasks(u) :
                                checklist[t].status \in {"completed", "verified"}}),
                              Cardinality(MyTasks(u))),
                       100))
                ELSE 0]
  /\ UNCHANGED <<checklist, nextId, now, role, employees, is_active, details, audit_logs, notifications,
                 tickets, cache,
                 permissions, mutation, loop>>

\* the rows the table can hold: every status of the CHECK constraint, with
\* or without a due date
DueDates == {NoDate, 0, 1}
StoredRows ==
  { Merge(DefaultRow, [employee_id |-> e, task_name |-> "T", status |-> s,
                       due_date |-> d]) :
      e \in Employees, s \in StatusValues, d \in DueDates }

InitStats ==
  /\ \E n \in 0..MaxTasks :
       /\ checklist \in [1..n -> StoredRows]
       /\ nextId = n
  /\ now = 0
  /\ role = [u \in AllUsers |-> IF u \in Users THEN RoleOf[u] ELSE NULL]
  /\ employees = [e \in Employees |->
                    [profile_id |-> ProfileOf[e], hire_date |-> HireDate[e],
                     status |-> "active"]]
  /\ is_active = [t \in TemplateIds |->
                    onboarding_templates[t].is_active]
  /\ permissions = [u \in Users |-> {}]
  /\ audit_logs = <<>>
  /\ details = <<>>
  /\ notifications = <<>>
  /\ tickets = <<>>
  /\ cache = NoCache
  /\ mutation = [u \in Users |-> Idle]
  /\ loop = Idle
  /\ last = NoOp

NextStats ==
  \/ Tick
  \/ \E u \in SpecUsers, e \in Employees \cup {NULL} :
       useOnboarding(u, e)
  \/ \E u \in SpecUsers : sessions(u)
  \/ \E u \in SpecUsers : EmployeeOnboardingDashboard(u)

SpecStats == InitStats /\ [][NextStats]_vars

\* ------------------------------------------------------------ SpecProgress
\* calculateProgress depends on its task list through two counts only: the
\* tasks completed or verified, and the tasks
MaxTotal == 40

InitProgress ==
  /\ checklist = <<>>
  /\ nextId = 0
  /\ now = 0
  /\ role = [u \in AllUsers |-> IF u \in Users THEN RoleOf[u] ELSE NULL]
  /\ employees = [e \in Employees |->
                    [profile_id |-> ProfileOf[e], hire_date |-> HireDate[e],
                     status |-> "active"]]
  /\ is_active = [t \in TemplateIds |->
                    onboarding_templates[t].is_active]
  /\ permissions = [u \in Users |-> {}]
  /\ audit_logs = <<>>
  /\ details = <<>>
  /\ notifications = <<>>
  /\ tickets = <<>>
  /\ cache = NoCache
  /\ mutation = [u \in Users |-> Idle]
  /\ loop = Idle
  /\ \E length \in 0..MaxTotal : \E completedTasks \in 0..length :
       last = [op |-> "tasks", completedTasks |-> completedTasks,
               length |-> length]

\* the hook returns progress: calculateProgress()
progress ==
  /\ last.op = "tasks"
  /\ last' = [op |-> "calculateProgress",
              completedTasks |-> last.completedTasks,
              length |-> last.length,
              progress |-> calculateProgress(last.completedTasks, last.length)]
  /\ UNCHANGED <<checklist, nextId, now, role, employees, is_active, details, audit_logs, notifications,
                 tickets, cache,
                 permissions, mutation, loop>>

NextProgress == progress

SpecProgress == InitProgress /\ [][NextProgress]_vars

\* --------------------------------------------------------- SpecPermissions
PermissionRow(r, resource, c, rd, u, d) ==
  [role |-> r, resource |-> resource, can_create |-> c, can_read |-> rd,
   can_update |-> u, can_delete |-> d]

\* the rows the migration inserts into role_permissions; no request of the
\* application writes the table
role_permissions ==
  { PermissionRow("admin", "users", TRUE, TRUE, TRUE, TRUE),
    PermissionRow("admin", "roles", TRUE, TRUE, TRUE, TRUE),
    PermissionRow("admin", "audit_logs", FALSE, TRUE, FALSE, FALSE),
    PermissionRow("admin", "settings", TRUE, TRUE, TRUE, TRUE),
    PermissionRow("admin", "employees", TRUE, TRUE, TRUE, TRUE),
    PermissionRow("admin", "leave_requests", TRUE, TRUE, TRUE, TRUE),
    PermissionRow("admin", "notifications", TRUE, TRUE, TRUE, TRUE),
    PermissionRow("hr", "employees", TRUE, TRUE, TRUE, FALSE),
    PermissionRow("hr", "leave_requests", FALSE, TRUE, TRUE, FALSE),
    PermissionRow("hr", "notifications", TRUE, TRUE, TRUE, FALSE),
    PermissionRow("hr", "users", FALSE, TRUE, TRUE, FALSE),
    PermissionRow("manager", "employees", FALSE, TRUE, TRUE, FALSE),
    PermissionRow("manager", "leave_requests", FALSE, TRUE, TRUE, FALSE),
    PermissionRow("manager", "notifications", FALSE, TRUE, FALSE, FALSE),
    PermissionRow("employee", "profile", FALSE, TRUE, TRUE, FALSE),
    PermissionRow("employee", "leave_requests", TRUE, TRUE, TRUE, FALSE),
    PermissionRow("employee", "notifications", FALSE, TRUE, TRUE, FALSE) }

\* the resources of the table and one it does not name; the four actions
\* and one that is none of them
Resources == {row.resource : row \in role_permissions} \cup {"payroll"}
Actions == {"create", "read", "update", "delete", "approve"}

\* the flag of a row for an action; false for any other action
Flag(row, action) ==
  CASE action = "create" -> row.can_create
    [] action = "read" -> row.can_read
    [] action = "update" -> row.can_update
    [] action = "delete" -> row.can_delete
    [] OTHER -> FALSE

\* a check that grants what the rows do not mention
hasPermissionUnlessDenied(loaded, resource, action) ==
  IF {row \in loaded : row.resource = resource} = {} THEN TRUE
  ELSE Flag(CHOOSE row \in loaded : row.resource = resource, action)

\* usePermissions().hasPermission over the rows the hook holds
hasPermission(loaded, resource, action) ==
  IF {row \in loaded : row.resource = resource} = {} THEN FALSE
  ELSE Flag(CHOOSE row \in loaded : row.resource = resource, action)

\* the effect of usePermissions: load the rows of the profile's role; an
\* error is logged and the rows stay as they were
fetchPermissions(u, lost) ==
  /\ role[u] # NULL
  /\ permissions' =
       IF lost THEN permissions
       ELSE [permissions EXCEPT
               ![u] = {row \in role_permissions : row.role = role[u]}]
  /\ last' = [op |-> "fetchPermissions", user |-> u,
              outcome |-> IF lost THEN "FetchError" ELSE "success"]
  /\ UNCHANGED <<checklist, nextId, now, role, employees, is_active, details, audit_logs, notifications,
                 tickets, cache,
                 mutation, loop>>

\* a component asks the hook
usePermissions(u, resource, action) ==
  /\ last' = [op |-> "hasPermission", user |-> u, resource |-> resource,
              action |-> action,
              result |-> hasPermission(permissions[u], resource, action)]
  /\ UNCHANGED <<checklist, nextId, now, role, employees, is_active, details, audit_logs, notifications,
                 tickets, cache,
                 permissions, mutation, loop>>

\* the database function: the flag of the row of the user's role, false
\* when the SELECT finds no row (COALESCE) or the user has no profile
user_has_permission(p_user_id, p_resource, p_action) ==
  LET user_role == get_current_user_role(p_user_id)
      rows == {row \in role_permissions :
                 row.role = user_role /\ row.resource = p_resource}
  IN IF rows = {} THEN FALSE
     ELSE Flag(CHOOSE row \in rows : TRUE, p_action)

select_user_has_permission(p_user_id, p_resource, p_action) ==
  /\ last' = [op |-> "user_has_permission", user |-> p_user_id,
              resource |-> p_resource, action |-> p_action,
              result |-> user_has_permission(p_user_id, p_resource, p_action)]
  /\ UNCHANGED <<checklist, nextId, now, role, employees, is_active, details, audit_logs, notifications,
                 tickets, cache,
                 permissions, mutation, loop>>

NextPermissions ==
  \/ \E u \in Users, lost \in BOOLEAN : fetchPermissions(u, lost)
  \/ \E u \in Users, r \in Resources, a \in Actions : usePermissions(u, r, a)
  \/ \E u \in AllUsers, r \in Resources, a \in Actions :
       select_user_has_permission(u, r, a)

SpecPermissions == Init /\ [][NextPermissions]_vars

\* ----------------------------------------------------------- SpecEmployees
\* the VALUES of the trigger function create_onboarding_checklist: task name
\* and days after NEW.hire_date
checklistValues ==
  << [task_name |-> "IT Setup", due_days |-> 1],
     [task_name |-> "HR Documentation", due_days |-> 3],
     [task_name |-> "Office Tour", due_days |-> 0],
     [task_name |-> "Training Schedule", due_days |-> 7],
     [task_name |-> "Payroll Setup", due_days |-> 5] >>

\* the rows the trigger inserts AFTER INSERT ON employees, cut to
\* MaxBlueprints rows.  SECURITY DEFINER: the policies do not apply.
create_onboarding_checklist(id, hire_date) ==
  [i \in 1..Min(MaxBlueprints, Len(checklistValues)) |->
     Merge(DefaultRow,
           [employee_id |-> id, task_name |-> checklistValues[i].task_name,
            due_date |-> hire_date + checklistValues[i].due_days])]

\* "Admins and HR can create employees" WITH CHECK, "... update ..." and
\* "... delete ..." USING; the service role key bypasses the policies
CanWriteEmployees(u, service_role) == service_role \/ IsAdminOrHR(u)

\* from('employees').insert(row).select().single():
\* <<error, employees, checklist, nextId afterwards>>
InsertEmployee(u, service_role, id, row) ==
  IF ~CanWriteEmployees(u, service_role)
    THEN <<"42501", employees, checklist, nextId>>
  ELSE IF id \in DOMAIN employees
    THEN <<"23505", employees, checklist, nextId>>
  ELSE LET rows == create_onboarding_checklist(id, row.hire_date)
       IN <<"none", id :> row @@ employees,
            [i \in (nextId + 1)..(nextId + Len(rows)) |-> rows[i - nextId]]
              @@ checklist,
            nextId + Len(rows)>>

HireDates == {0, 1}

\* rows the audit log can hold
MaxAudit == 2

\* log_audit_event: one INSERT INTO audit_logs.  SECURITY DEFINER, and the
\* policy "System can insert audit logs" admits every caller.
log_audit_event(logs, p_user_id, p_action, p_resource_type, p_resource_id) ==
  Append(logs, [user_id |-> p_user_id, action |-> p_action,
                resource_type |-> p_resource_type,
                resource_id |-> p_resource_id])

\* useAuditLogs().logEvent by the session of u: the rpc with p_user_id the
\* session's user.  lost: the request failed; nothing reports it.
logEvent(logs, u, lost, action, resourceType, resourceId) ==
  IF lost THEN logs
  ELSE log_audit_event(logs, u, action, resourceType, resourceId)

\* the trigger log_profile_changes AFTER INSERT OR UPDATE ON profiles, in
\* the transaction of the statement: the actor it records is NEW.user_id
log_profile_changes(logs, TG_OP, NEW_user_id) ==
  log_audit_event(logs, NEW_user_id,
                  IF TG_OP = "UPDATE" THEN "UPDATE" ELSE "CREATE",
                  "profile", NEW_user_id)

\* useEmployees().createEmployee: the insert, then logEvent
createEmployee(u, hire_date, lost) ==
  LET res == InsertEmployee(u, FALSE, "e_new",
                            [profile_id |-> "new", hire_date |-> hire_date,
                             status |-> "active"])
  IN /\ nextId + Min(MaxBlueprints, Len(checklistValues)) <= MaxTasks
     /\ Len(audit_logs) < MaxAudit
     /\ employees' = res[2]
     /\ checklist' = res[3]
     /\ nextId' = res[4]
     /\ audit_logs' = IF res[1] = "none"
                        THEN logEvent(audit_logs, u, lost, "CREATE",
                                      "employee", "e_new")
                      ELSE audit_logs
     /\ last' = [op |-> "createEmployee", user |-> u,
                 outcome |-> Outcome(res[1])]
     /\ UNCHANGED <<now, role, is_active, details, permissions, mutation, loop,
                    notifications, tickets, cache>>

\* useEmployees().updateEmployee, as toggleEmployeeStatus calls it: a row
\* the policy hides is not updated, and .single() then reports no row
updateEmployee(u, id, status, lost) ==
  LET hit == id \in DOMAIN employees /\ CanWriteEmployees(u, FALSE)
  IN /\ Len(audit_logs) < MaxAudit
     /\ employees' = IF hit THEN [employees EXCEPT ![id].status = status]
                     ELSE employees
     /\ audit_logs' = IF hit
                        THEN logEvent(audit_logs, u, lost, "UPDATE",
                                      "employee", id)
                      ELSE audit_logs
     /\ last' = [op |-> "updateEmployee", user |-> u,
                 outcome |-> IF hit THEN "success" ELSE "PGRST116"]
     /\ UNCHANGED <<checklist, nextId, now, role, is_active, details, permissions,
                    mutation, loop, notifications, tickets, cache>>

\* useEmployees().deleteEmployee: a row the policy hides is not deleted and
\* no error is reported; ON DELETE CASCADE removes the employee's tasks
deleteEmployee(u, id, lost) ==
  LET hit == id \in DOMAIN employees /\ CanWriteEmployees(u, FALSE)
  IN /\ Len(audit_logs) < MaxAudit
     /\ employees' = IF hit
                       THEN [e \in DOMAIN employees \ {id} |-> employees[e]]
                     ELSE employees
     /\ checklist' = IF hit
                       THEN [t \in {x \in DOMAIN checklist :
                                      checklist[x].employee_id # id} |->
                               checklist[t]]
                     ELSE checklist
     /\ audit_logs' = logEvent(audit_logs, u, lost, "DELETE", "employee", id)
     /\ last' = [op |-> "deleteEmployee", user |-> u, outcome |-> "success"]
     /\ UNCHANGED <<nextId, now, role, is_active, details, permissions, mutation, loop,
                    notifications, tickets, cache>>

\* the create-employee edge function, called by caller for the person
\* "new".  It works with the service role key and never looks at the
\* caller.  complete: the body has the required fields.  p_role: its role.
\* auth.admin.createUser fires handle_new_user, which inserts the profile;
\* the function then updates the profile and inserts the employee.
create_employee(caller, complete, p_role, hire_date) ==
  LET res == InsertEmployee(caller, TRUE, "e_new",
                            [profile_id |-> "new", hire_date |-> hire_date,
                             status |-> "active"])
      created == IF role["new"] = NULL
                   THEN log_profile_changes(audit_logs, "INSERT", "new")
                 ELSE audit_logs
  IN /\ nextId + Min(MaxBlueprints, Len(checklistValues)) <= MaxTasks
     /\ Len(audit_logs) + 2 <= MaxAudit
     /\ IF ~complete
          THEN /\ UNCHANGED <<role, employees, checklist, nextId, audit_logs>>
               /\ last' = [op |-> "create-employee", user |-> caller,
                           outcome |-> "Missing required fields"]
          ELSE /\ role' = [role EXCEPT
                             !["new"] = IF p_role = NULL THEN "employee"
                                        ELSE p_role]
               /\ audit_logs' = log_profile_changes(created, "UPDATE", "new")
               /\ employees' = res[2]
               /\ checklist' = res[3]
               /\ nextId' = res[4]
               /\ last' = [op |-> "create-employee", user |-> caller,
                           outcome |-> Outcome(res[1])]
     /\ UNCHANGED <<now, is_active, details, permissions, mutation, loop,
                    notifications, tickets, cache>>

NextEmployees ==
  \/ \E u \in Users, h \in HireDates, lost \in BOOLEAN :
       createEmployee(u, h, lost)
  \/ \E u \in Users, e \in EmployeeIds, st \in {"active", "inactive"},
        lost \in BOOLEAN :
       updateEmployee(u, e, st, lost)
  \/ \E u \in Users, e \in EmployeeIds, lost \in BOOLEAN :
       deleteEmployee(u, e, lost)
  \/ \E caller \in Users \cup {Anon}, complete \in BOOLEAN,
        r \in {NULL, "admin"}, h \in HireDates :
       create_employee(caller, complete, r, h)

SpecEmployees == Init /\ [][NextEmployees]_vars

\* ------------------------------------------------- profiles and the audit
\* "Users can view their own profile", "Admins and HR can view all profiles"
CanViewProfile(u, target) == u = target \/ IsAdminOrHR(u)

\* "Users can update their own profile" USING (auth.uid() = user_id), with
\* no WITH CHECK and no column list; "Admins and HR can update all profiles"
CanUpdateProfile(u, target) == u = target \/ IsAdminOrHR(u)

\* roles the edit dialog offers
app_role == {"admin", "hr", "manager", "employee"}

\* UserManagement.handleUpdateUser(userId, {role: newRole}) in the session
\* of u, for a row of the list fetchUsers loaded: the update of profiles
\* (with its trigger), then logEvent
handleUpdateUser(u, userId, newRole, lost) ==
  LET hit == role[userId] # NULL /\ CanUpdateProfile(u, userId)
      logged == IF hit
                  THEN log_profile_changes(audit_logs, "UPDATE", userId)
                ELSE audit_logs
  IN /\ role[userId] # NULL
     /\ CanViewProfile(u, userId)
     /\ Len(audit_logs) + 2 <= MaxAudit
     /\ role' = IF hit THEN [role EXCEPT ![userId] = newRole] ELSE role
     /\ audit_logs' = logEvent(logged, u, lost, "UPDATE", "user", userId)
     /\ last' = [op |-> "handleUpdateUser", user |-> u, target |-> userId,
                 outcome |-> "success"]
     /\ UNCHANGED <<checklist, nextId, now, employees, is_active, details, permissions,
                    mutation, loop, notifications, tickets, cache>>

\* DELETE FROM auth.users WHERE id = target, by the project's
\* administration: profiles.user_id ON DELETE CASCADE removes the profile,
\* employees.profile_id ON DELETE CASCADE the employee and
\* onboarding_checklist.employee_id ON DELETE CASCADE the tasks;
\* audit_logs.user_id ON DELETE SET NULL rewrites the entries of the user.
\* support_tickets.created_by has no ON DELETE action and blocks it.
delete_user(target) ==
  LET gone == {e \in DOMAIN employees : employees[e].profile_id = target}
  IN /\ role[target] # NULL
     /\ \A t \in DOMAIN tickets : tickets[t].created_by # target
     /\ role' = [role EXCEPT ![target] = NULL]
     /\ employees' = [e \in DOMAIN employees \ gone |-> employees[e]]
     /\ checklist' = [t \in {x \in DOMAIN checklist :
                               checklist[x].employee_id \notin gone} |->
                        checklist[t]]
     /\ audit_logs' = [i \in DOMAIN audit_logs |->
                         IF audit_logs[i].user_id = target
                           THEN [audit_logs[i] EXCEPT !.user_id = NULL]
                         ELSE audit_logs[i]]
     /\ last' = [op |-> "delete_user", user |-> "service_role",
                 target |-> target]
     /\ UNCHANGED <<nextId, now, is_active, details, permissions, mutation, loop,
                    notifications, tickets, cache>>

NextAudit ==
  \/ \E h \in HireDates, lost \in BOOLEAN : createEmployee("hr", h, lost)
  \/ \E u \in {"hr", "emp"}, e \in EmployeeIds, lost \in BOOLEAN :
       deleteEmployee(u, e, lost)
  \/ \E u \in Users, t \in AllUsers, r \in app_role, lost \in BOOLEAN :
       handleUpdateUser(u, t, r, lost)
  \/ \E caller \in {"hr", Anon}, r \in {NULL, "admin"} :
       create_employee(caller, TRUE, r, 0)
  \/ \E t \in AllUsers : delete_user(t)

SpecAudit == Init /\ [][NextAudit]_vars

\* ------------------------------------------ handlers that notify afterwards
\* EmployeeManagement.handleCreateEmployee: the insert (no profile yet),
\* logEvent, the notification to the caller, the toast
handleCreateEmployee(u, hire_date, lostLog, lost) ==
  LET res == InsertEmployee(u, FALSE, "e_new",
                            [profile_id |-> NULL, hire_date |-> hire_date,
                             status |-> "active"])
      note == create_notification(u, "New Employee Added", lost)
      sent == res[1] = "none"
  IN /\ nextId + Min(MaxBlueprints, Len(checklistValues)) <= MaxTasks
     /\ Len(audit_logs) < MaxAudit
     /\ Len(notifications) < MaxNotes
     /\ employees' = res[2]
     /\ checklist' = res[3]
     /\ nextId' = res[4]
     /\ audit_logs' = IF sent
                        THEN logEvent(audit_logs, u, lostLog, "CREATE",
                                      "employee", "e_new")
                      ELSE audit_logs
     /\ notifications' = IF sent THEN note[2] ELSE notifications
     /\ last' = [op |-> "handleCreateEmployee", user |-> u,
                 notification |-> IF sent THEN note[1] ELSE "not sent",
                 outcome |-> IF sent THEN Outcome(awaitRpc(note))
                             ELSE Outcome(res[1])]
     /\ UNCHANGED <<now, role, is_active, details, permissions, mutation,
                    loop, tickets, cache>>

\* EmployeeManagement.handleUpdateEmployee: update().eq() reports no error
\* when the policies leave it no row; logEvent, the notification, the toast
handleUpdateEmployee(u, employeeId, status, lostLog, lost) ==
  LET hit == employeeId \in DOMAIN employees /\ CanWriteEmployees(u, FALSE)
      note == create_notification(u, "Employee Updated", lost)
  IN /\ Len(audit_logs) < MaxAudit
     /\ Len(notifications) < MaxNotes
     /\ employees' = IF hit
                       THEN [employees EXCEPT ![employeeId].status = status]
                     ELSE employees
     /\ audit_logs' = logEvent(audit_logs, u, lostLog, "UPDATE", "employee",
                               employeeId)
     /\ notifications' = note[2]
     /\ last' = [op |-> "handleUpdateEmployee", user |-> u,
                 employee |-> employeeId, notification |-> note[1],
                 outcome |-> Outcome(awaitRpc(note))]
     /\ UNCHANGED <<checklist, nextId, now, role, is_active, details,
                    permissions, mutation, loop, tickets, cache>>

\* rows employee_onboarding_details can hold
MaxDetails == 1

\* OnboardingDetailsForm.onSubmit: the own employee record (.single()), the
\* insert of the details, the tasks of the default template, the
\* notification, the toast.  Each statement is its own transaction.
onSubmit(u, lost) ==
  LET own == OwnEmployees(u)
      employee == CHOOSE e \in own : TRUE
      found == template_tasks(NULL)
      rows == IF found.is_null THEN << >>
              ELSE TemplateRows(employee, found.tasks)
      tasksError == \E i \in 1..Len(rows) : RowViolatesCheck(rows[i])
      note == create_notification(u, "New Onboarding Submission", lost)
  IN /\ Len(details) < MaxDetails
     /\ Len(notifications) < MaxNotes
     /\ IF Cardinality(own) # 1
          THEN /\ UNCHANGED <<details, checklist, nextId, notifications>>
               /\ last' = [op |-> "onSubmit", user |-> u,
                           notification |-> "not sent",
                           outcome |-> "PGRST116"]
          ELSE /\ nextId + Len(rows) <= MaxTasks
               /\ details' = Append(details, employee)
               /\ IF tasksError
                    THEN /\ UNCHANGED <<checklist, nextId, notifications>>
                         /\ last' = [op |-> "onSubmit", user |-> u,
                                     notification |-> "not sent",
                                     outcome |-> "23514"]
                    ELSE /\ checklist' =
                              [i \in (nextId + 1)..(nextId + Len(rows)) |->
                                 rows[i - nextId]] @@ checklist
                         /\ nextId' = nextId + Len(rows)
                         /\ notifications' = note[2]
                         /\ last' = [op |-> "onSubmit", user |-> u,
                                     notification |-> note[1],
                                     outcome |-> Outcome(awaitRpc(note))]
     /\ UNCHANGED <<now, role, employees, is_active, audit_logs, permissions,
                    mutation, loop, tickets, cache>>

NextNotify ==
  \/ \E u \in {"hr", "emp"}, lostLog \in BOOLEAN, lost \in BOOLEAN :
       handleCreateEmployee(u, 0, lostLog, lost)
  \/ \E u \in {"hr", "emp"}, e \in EmployeeIds,
        st \in {"active", "inactive"}, lostLog \in BOOLEAN,
        lost \in BOOLEAN :
       handleUpdateEmployee(u, e, st, lostLog, lost)
  \/ \E u \in SpecUsers, lost \in BOOLEAN : onSubmit(u, lost)
  \/ \E u \in SpecUsers, t \in 1..MaxTasks, f \in Files, lost \in BOOLEAN :
       handleFileUpload(u, t, f, lost)

SpecNotify == Init /\ [][NextNotify]_vars

\* ------------------------------------- the organisation-wide useOnboarding
\* the hook's state after useState: no tasks, zero stats, loading
mounted(u) ==
  [state |-> "mounted", user |-> u, loading |-> TRUE, tasks |-> <<>>,
   stats |-> [total_tasks |-> 0, completed_tasks |-> 0, overdue_tasks |-> 0],
   pendingTasks |-> TRUE, pendingStats |-> TRUE]

\* the hook mounts in the session of u: the effect runs fetchData, which
\* sets loading and starts both fetches
useOnboardingMount(u) ==
  /\ cache = NoCache
  /\ cache' = mounted(u)
  /\ last' = [op |-> "useOnboarding.mount", user |-> u]
  /\ UNCHANGED <<checklist, nextId, now, role, employees, is_active, details,
                 audit_logs, notifications, tickets, permissions, mutation,
                 loop>>

\* setLoading(false) once both promises of Promise.all have settled
Settled(c) ==
  IF ~c.pendingTasks /\ ~c.pendingStats THEN [c EXCEPT !.loading = FALSE]
  ELSE c

\* fetchOnboardingTasks: the select reads the table and setTasks stores the
\* rows; on an error the cached rows stay.  lost: the request failed.
fetchOnboardingTasks(lost) ==
  /\ cache.state = "mounted"
  /\ cache.pendingTasks
  /\ cache' = Settled([cache EXCEPT
                         !.pendingTasks = FALSE,
                         !.tasks = IF lost THEN @
                                   ELSE [t \in Visible(cache.user) |->
                                           checklist[t]]])
  /\ last' = [op |-> "fetchOnboardingTasks", user |-> cache.user,
              outcome |-> IF lost THEN "FetchError" ELSE "success"]
  /\ UNCHANGED <<checklist, nextId, now, role, employees, is_active, details,
                 audit_logs, notifications, tickets, permissions, mutation,
                 loop>>

\* the stats fetchOnboardingStats computes from its own select
onboardingStats(tasksData) ==
  [total_tasks |-> Cardinality(tasksData),
   completed_tasks |->
     Cardinality({t \in tasksData : checklist[t].is_completed}),
   overdue_tasks |->
     Cardinality({t \in tasksData :
       /\ ~checklist[t].is_completed
       /\ checklist[t].due_date # NoDate
       /\ newDate(checklist[t].due_date) < now})]

\* fetchOnboardingStats: a second select reads the table and setStats
\* stores the counts; without data the cached stats stay
fetchOnboardingStats(lost) ==
  /\ cache.state = "mounted"
  /\ cache.pendingStats
  /\ cache' = Settled([cache EXCEPT
                         !.pendingStats = FALSE,
                         !.stats = IF lost THEN @
                                   ELSE onboardingStats(Visible(cache.user))])
  /\ last' = [op |-> "fetchOnboardingStats", user |-> cache.user,
              outcome |-> IF lost THEN "FetchError" ELSE "success"]
  /\ UNCHANGED <<checklist, nextId, now, role, employees, is_active, details,
                 audit_logs, notifications, tickets, permissions, mutation,
                 loop>>

\* await Promise.all([fetchOnboardingTasks(), fetchOnboardingStats()]) after
\* a mutation of the hook that reported no error: both fetches start again,
\* loading is not set
Refetch(u, error) ==
  IF cache.state = "mounted" /\ cache.user = u /\ error = "none"
    THEN [cache EXCEPT !.pendingTasks = TRUE, !.pendingStats = TRUE]
  ELSE cache

\* ------------------------------------------------ the completion flag
\* useOnboarding().completeTask of the organisation-wide hook, and
\* EmployeeOnboarding.completeTask: the update sets the flag and leaves
\* status alone; a row the policies hide is skipped without an error
completeTask(u, taskId) ==
  LET res == Update(u, taskId,
                    [is_completed |-> TRUE, completed_by |-> u,
                     completed_at |-> now])
  IN /\ taskId \in Visible(u)
     /\ checklist' = res[3]
     /\ cache' = Refetch(u, res[1])
     /\ last' = [op |-> "completeTask", user |-> u, task |-> taskId,
                 outcome |-> Outcome(res[1])]
     /\ UNCHANGED <<nextId, now, role, employees, is_active, details,
                    audit_logs, notifications, tickets, permissions,
                    mutation, loop>>

NextCompletion ==
  \/ \E u \in SpecUsers, e \in Employees :
       create_onboarding_tasks_from_template(u, e, NULL)
  \/ \E u \in SpecUsers, t \in 1..MaxTasks : completeTask(u, t)
  \/ \E u \in SpecUsers, t \in 1..MaxTasks : handleApprove(u, t)
  \/ \E u \in SpecUsers, t \in 0..MaxTasks, r \in Reasons :
       handleReject(u, t, r)
  \/ \E u \in SpecUsers, t \in 1..MaxTasks, s \in StatusValues :
       updateTaskStatus(u, t, s, <<>>, <<>>)

SpecCompletion == Init /\ [][NextCompletion]_vars

\* ------------------------------------------------- the management views
\* a JavaScript value of the components: a boolean, or a function object
FunctionObject(name) == [type |-> "function", name |-> name]
Boolean(b) == [type |-> "boolean", value |-> b]

\* ToBoolean: every object, a function included, is true
ToBoolean(v) == IF v.type = "boolean" THEN v.value ELSE TRUE

\* a || b: a when it is truthy, b otherwise
Or(a, b) == IF ToBoolean(a) THEN a ELSE b

\* what usePermissions() returns as canManageUsers: the arrow function
\* () => hasPermission('users', 'read'), which the components never call
canManageUsers == FunctionObject("canManageUsers")

\* EmployeeManagement: canManageUsers || isAdmin || isHR
canManageEmployees(u) ==
  Or(Or(canManageUsers, Boolean(role[u] = "admin")),
     Boolean(role[u] = "hr"))

\* UserManagement renders for the session of u: the refusal card when
\* !canManageUsers, the user list with its Add and Edit actions otherwise
UserManagement(u) ==
  /\ role[u] # NULL
  /\ last' = [op |-> "UserManagement", user |-> u, role |-> role[u],
              users_read |-> hasPermission(permissions[u], "users", "read"),
              view |-> ~(~ToBoolean(canManageUsers)),
              actions |-> ~(~ToBoolean(canManageUsers))]
  /\ UNCHANGED <<checklist, nextId, now, role, employees, is_active, details,
                 audit_logs, notifications, tickets, cache, permissions,
                 mutation, loop>>

\* EmployeeManagement renders for the session of u: the refusal card when
\* !canManageEmployees && !isEmployee, otherwise the directory, with Add
\* Employee and the row actions when canManageEmployees
EmployeeManagement(u) ==
  LET isEmployee == role[u] = "employee"
      refused == ~ToBoolean(canManageEmployees(u)) /\ ~isEmployee
  IN /\ role[u] # NULL
     /\ last' = [op |-> "EmployeeManagement", user |-> u, role |-> role[u],
                 users_read |->
                   hasPermission(permissions[u], "users", "read"),
                 view |-> ~refused,
                 actions |-> ~refused /\ ToBoolean(canManageEmployees(u))]
     /\ UNCHANGED <<checklist, nextId, now, role, employees, is_active,
                    details, audit_logs, notifications, tickets, cache,
                    permissions, mutation, loop>>

NextViews ==
  \/ \E u \in Users, lost \in BOOLEAN : fetchPermissions(u, lost)
  \/ \E u \in Users : UserManagement(u)
  \/ \E u \in Users : EmployeeManagement(u)
  \/ \E u \in Users, t \in Users, r \in app_role :
       handleUpdateUser(u, t, r, TRUE)

SpecViews == Init /\ [][NextViews]_vars

\* the hook of hr, and adm as the other writer
NextCache ==
  \/ useOnboardingMount("hr")
  \/ \E lost \in BOOLEAN : fetchOnboardingTasks(lost)
  \/ \E lost \in BOOLEAN : fetchOnboardingStats(lost)
  \/ \E t \in 1..MaxTasks : completeTask("hr", t)
  \/ \E t \in 1..MaxTasks : completeTask("adm", t)
  \/ \E e \in Employees : create_onboarding_tasks_from_template("adm", e, NULL)
  \/ \E e \in Employees : addTask("adm", e, NoDate, FALSE)

SpecCache == Init /\ [][NextCache]_vars

\* ------------------------------------------------------- support tickets
\* rows support_tickets can hold
MaxTickets == 3

\* 'TKT-' || TO_CHAR(NOW(), 'YYYYMMDD') || '-' || LPAD(counter, 4, '0') as
\* the pair of its day and its counter
TicketNumber(day, counter) == <<day, counter>>

\* the committed rows a statement of u sees: "Users can view their own
\* tickets", "HR and Admins can view all tickets"
VisibleTickets(u) ==
  {i \in DOMAIN tickets :
     /\ tickets[i].committed
     /\ (tickets[i].created_by = u \/ IsAdminOrHR(u))}

\* generate_ticket_number, run with the rights of the inserting user:
\* COUNT(*) + 1 over the rows the user's statement sees
generate_ticket_number(u) ==
  TicketNumber(CURRENT_DATE, Cardinality(VisibleTickets(u)) + 1)

\* set_ticket_number, BEFORE INSERT: a NULL number is generated
set_ticket_number(u, ticket_number) ==
  IF ticket_number = NULL THEN generate_ticket_number(u) ELSE ticket_number

\* numbers a caller can pass
ExplicitNumbers == {TicketNumber(0, 1), TicketNumber(0, 2)}

\* the row of the statement of u that has not committed yet
Uncommitted(u) ==
  {i \in DOMAIN tickets : tickets[i].created_by = u /\ ~tickets[i].committed}

\* INSERT INTO support_tickets by u (created_by is the own profile): the
\* trigger has run and the row version is written, not yet committed.
\* explicit: the statement names a ticket_number
insertTicket(u, explicit, ticket_number) ==
  /\ role[u] # NULL
  /\ Uncommitted(u) = {}
  /\ Len(tickets) < MaxTickets
  /\ tickets' = Append(tickets,
                       [ticket_number |->
                          set_ticket_number(u, IF explicit THEN ticket_number
                                               ELSE NULL),
                        created_by |-> u, explicit |-> explicit,
                        committed |-> FALSE])
  /\ last' = [op |-> "insertTicket", user |-> u, explicit |-> explicit]
  /\ UNCHANGED <<checklist, nextId, now, role, employees, is_active, details,
                 audit_logs, notifications, cache, permissions, mutation, loop>>

\* the sequence without its i-th element
Without(seq, i) ==
  [k \in 1..(Len(seq) - 1) |-> IF k < i THEN seq[k] ELSE seq[k + 1]]

\* the statement of u ends: ticket_number UNIQUE raises 23505 when a
\* committed row has the number, and the row is gone; otherwise it commits
commitTicket(u) ==
  /\ Uncommitted(u) # {}
  /\ LET i == CHOOSE k \in Uncommitted(u) : TRUE
         duplicate == \E k \in DOMAIN tickets :
                        /\ tickets[k].committed
                        /\ tickets[k].ticket_number = tickets[i].ticket_number
     IN /\ tickets' = IF duplicate THEN Without(tickets, i)
                      ELSE [tickets EXCEPT ![i].committed = TRUE]
        /\ last' = [op |-> "commitTicket", user |-> u,
                    explicit |-> tickets[i].explicit,
                    outcome |-> IF duplicate THEN "23505" ELSE "success"]
  /\ UNCHANGED <<checklist, nextId, now, role, employees, is_active, details,
                 audit_logs, notifications, cache, permissions, mutation, loop>>

NextTickets ==
  \/ \E u \in SpecUsers : insertTicket(u, FALSE, NULL)
  \/ \E u \in SpecUsers, n \in ExplicitNumbers : insertTicket(u, TRUE, n)
  \/ \E u \in SpecUsers : commitTicket(u)
  \/ Tick

SpecTickets == Init /\ [][NextTickets]_vars

\* ================================================================== claims
\* the transition table of the specification
AllowedTransitions ==
  { <<"pending", "submitted">>, <<"pending", "completed">>,
    <<"submitted", "verified">>, <<"submitted", "rejected">>,
    <<"rejected", "submitted">> }

\* C1: a step changes the status of a task only along a pair of the
\* transition table (pending->submitted, pending->completed,
\* submitted->verified, submitted->rejected, rejected->submitted).
C1_OnlyTableTransitions ==
  [][\A t \in DOMAIN checklist :
       (t \in DOMAIN checklist' /\ checklist'[t].status # checklist[t].status)
         => <<checklist[t].status, checklist'[t].status>> \in AllowedTransitions]_vars

\* C2: a task whose status is verified or completed keeps that status in
\* every later step.
C2_TerminalForever ==
  [][\A t \in DOMAIN checklist :
       checklist[t].status \in {"verified", "completed"}
         => t \in DOMAIN checklist' /\ checklist'[t].status = checklist[t].status]_vars

\* C4: a request to set a task verified or rejected that was sent by an actor
\* whose role is neither hr nor admin does not end in success.
C4_NonHRVerifyFails ==
  (/\ last.op \in {"handleApprove", "handleReject", "updateTaskStatus"}
   /\ last.status \in {"verified", "rejected"}
   /\ ~IsAdminOrHR(last.user))
    => last.outcome # "success"

\* C7: when the owner uploads a file for an own pending document task and
\* the dashboard reports success, the task is submitted and carries the
\* reference to the uploaded document.
C7_OwnerSubmits ==
  [][(/\ last'.op = "handleFileUpload"
      /\ last'.outcome = "success"
      /\ checklist[last'.task].status = "pending")
       => /\ checklist'[last'.task].status = "submitted"
          /\ checklist'[last'.task].document_url # NoText]_vars

\* C8: a resubmission of a rejected task that reports success leaves the
\* task submitted with its rejection reason cleared, and no submitted task
\* carries a rejection reason.
C8_ResubmitClearsReason ==
  [][/\ (/\ last'.op = "handleFileUpload"
         /\ last'.outcome = "success"
         /\ checklist[last'.task].status = "rejected")
          => /\ checklist'[last'.task].status = "submitted"
             /\ checklist'[last'.task].rejection_reason = NoText
     /\ \A t \in DOMAIN checklist' :
          checklist'[t].status = "submitted"
            => checklist'[t].rejection_reason = NoText]_vars

\* C9: every rejected task carries a rejection reason that is not empty
\* after trimming, and a request to reject with an empty or blank reason
\* does not succeed and changes no task.
C9_RejectNeedsReason ==
  [][/\ \A t \in DOMAIN checklist' :
          checklist'[t].status = "rejected"
            => /\ checklist'[t].rejection_reason # NoText
               /\ trim(checklist'[t].rejection_reason) # <<>>
     /\ (/\ last'.op \in {"handleReject", "updateTaskStatus"}
         /\ last'.status = "rejected"
         /\ trim(last'.reason) = <<>>)
          => /\ checklist' = checklist
             /\ last'.outcome # "success"]_vars

\* C9 witness: a task has been rejected with a reason, and a later request to
\* reject a listed task with a blank reason has been refused.
C9_Witness ==
  /\ \E t \in DOMAIN checklist :
       checklist[t].status = "rejected" /\ checklist[t].rejection_reason = <<"x">>
  /\ last.op = "handleReject"
  /\ last.task # 0
  /\ last.reason = <<" ">>
  /\ last.outcome = "Rejection Reason Required"

\* C10: every verified task records who verified it and when.
C10_VerifiedHasVerifier ==
  \A t \in DOMAIN checklist :
    checklist[t].status = "verified"
      => checklist[t].verified_by # NULL /\ checklist[t].verified_at # NoDate

\* C3: of two requests on the same task that were outstanding at the same
\* time and have both settled, not both have succeeded.
C3_OneWinner ==
  \A u \in Users, v \in Users :
    (/\ u # v
     /\ mutation[u].state \in {"success", "error"}
     /\ mutation[v].state \in {"success", "error"}
     /\ v \in mutation[u].rivals
     /\ u \in mutation[v].rivals)
      => ~(mutation[u].state = "success" /\ mutation[v].state = "success")

C6_UnauthorizedCreatesNothing ==
  /\ (last.op = "generateTasksFromTemplate" /\ ~CanManage(last.user))
       => \A id \in last.first..(last.first + last.count - 1) :
            id \notin DOMAIN checklist
  /\ (loop.state # "idle" /\ ~CanManage(loop.user)) => loop.created = {}


\* the kinds of task the owner may complete without a review
OwnerCompletable == {"policy", "training", "general"}

Overdue(t) ==
  /\ checklist[t].status \notin {"completed", "verified"}
  /\ checklist[t].due_date * TicksPerDay < now

HaveDueDates(tasks) == \A t \in tasks : checklist[t].due_date # NoDate

C13_CountersSumToTotal ==
  /\ last.op = "useOnboarding"
       => last.taskStats.completed + last.taskStats.pending
            + last.taskStats.submitted + last.taskStats.rejected
          = last.taskStats.total
  /\ last.op = "sessions"
       => \A e \in DOMAIN last.sessions :
            last.sessions[e].stats.completed_tasks
              + last.sessions[e].stats.pending_tasks
            = last.sessions[e].stats.total_tasks

\* C14: completed is the number of the employee's tasks whose status is
\* completed or verified, in getTaskStats, in the records of the sessions
\* query and on the employee dashboard.
C14_CompletedCountsVerified ==
  /\ last.op = "useOnboarding"
       => last.taskStats.completed
            = Cardinality({t \in last.tasks :
                checklist[t].status \in {"completed", "verified"}})
  /\ last.op = "sessions"
       => \A e \in DOMAIN last.sessions :
            last.sessions[e].stats.completed_tasks
              = Cardinality({t \in last.data :
                  /\ checklist[t].employee_id = e
                  /\ checklist[t].status \in {"completed", "verified"}})
  /\ last.op = "EmployeeOnboardingDashboard"
       => last.completedTasks
            = Cardinality({t \in last.tasks :
                checklist[t].status \in {"completed", "verified"}})

\* C15: progress is 0 for an empty task list and otherwise 100 * completed /
\* total rounded to the nearest integer (a tie rounded up or to the even
\* neighbour), for all 0 <= completed <= total; so it lies in 0..100 and is
\* 100 exactly when completed = total > 0.
C15_ProgressIsRoundedRatio ==
  last.op = "calculateProgress" =>
    /\ last.progress \in 0..100
    /\ last.length = 0 => last.progress = 0
    /\ last.length > 0 =>
         \/ last.progress
              = (200 * last.completedTasks + last.length) \div (2 * last.length)
         \/ /\ (200 * last.completedTasks) % (2 * last.length) = last.length
            /\ last.progress % 2 = 0
            /\ last.progress
                 = (200 * last.completedTasks - last.length) \div (2 * last.length)
    /\ (last.progress = 100) <=>
         (last.length > 0 /\ last.completedTasks = last.length)

\* the tasks a finished run of the client loop created, oldest first
CreatedInOrder(created, tasks, employeeId) ==
  /\ Cardinality(created) = Len(tasks)
  /\ \A t \in created :
       /\ t \in DOMAIN checklist'
       /\ checklist'[t].employee_id = employeeId
       /\ checklist'[t].status = "pending"
       /\ checklist'[t].task_name
            = tasks[1 + Cardinality({o \in created : o < t})].task_name

C17_DueFromHireDate ==
  (last.op = "generateTasksFromTemplate" /\ last.outcome = "success") =>
    \A i \in 1..last.count :
      checklist[last.first + i - 1].due_date
        = employees[last.employee].hire_date
            + template_tasks(last.template).tasks[i].due_days

\* the active templates designated as default
ActiveDefaults ==
  {t \in TemplateIds :
     /\ onboarding_templates[t].template_name = "Default Onboarding"
     /\ is_active[t]}

\* C18: a call without a template id applies the active template named
\* 'Default Onboarding': the tasks it creates are that template's
\* blueprints; when no such template is active the call creates no task,
\* leaves the table as it was and reports success.
C18_DefaultOrNothing ==
  [][(last'.op = "generateTasksFromTemplate" /\ last'.template = NULL) =>
       IF ActiveDefaults = {}
         THEN /\ checklist' = checklist
              /\ nextId' = nextId
              /\ last'.outcome = "success"
         ELSE \E d \in ActiveDefaults :
                last'.outcome = "success" =>
                  /\ last'.count = Len(onboarding_templates[d].tasks)
                  /\ \A i \in 1..last'.count :
                       checklist'[nextId + i].task_name
                         = onboarding_templates[d].tasks[i].task_name
    ]_vars

C18_Witness ==
  /\ ActiveDefaults = {}
  /\ last.op = "generateTasksFromTemplate"
  /\ last.template = NULL
  /\ last.outcome = "success"
  /\ last.count = 0
  /\ DOMAIN checklist # {}

\* the permission matrix has a row for the role of the user and the resource
InMatrix(u, resource) ==
  \E row \in role_permissions :
    row.role = get_current_user_role(u) /\ row.resource = resource

\* C19: the permission check denies by default: hasPermission of the
\* client and user_has_permission of the database answer false whenever
\* the matrix has no row for the user's role and the resource, and whenever
\* the action is none of create, read, update, delete; the client also
\* before its rows are loaded.
C19_DenyByDefault ==
  (last.op \in {"hasPermission", "user_has_permission"}) =>
    /\ ~InMatrix(last.user, last.resource) => last.result = FALSE
    /\ last.action \notin {"create", "read", "update", "delete"}
         => last.result = FALSE
    /\ (last.op = "hasPermission" /\ permissions[last.user] = {})
         => last.result = FALSE

C19_Witness ==
  /\ last.op = "hasPermission"
  /\ permissions[last.user] # {}
  /\ ~InMatrix(last.user, last.resource)
  /\ last.action = "read"
  /\ last.result = FALSE

\* C20: a step changes the employees table only on a request of a caller
\* whose role is admin or hr: a request of a manager, of an employee or of
\* a caller without a session leaves the table as it was, through the
\* hook's table writes and through the create-employee function.
C20_OnlyAdminOrHRWriteEmployees ==
  [][employees' # employees => IsAdminOrHR(last'.user)]_vars

\* the step appends an audit entry for this action on this resource
Logged(action, resource_type, resource_id) ==
  \E i \in (Len(audit_logs) + 1)..Len(audit_logs') :
    /\ audit_logs'[i].action = action
    /\ audit_logs'[i].resource_type = resource_type
    /\ audit_logs'[i].resource_id = resource_id

\* C21: a step that commits the creation, the update or the deletion of an
\* employee record leaves an audit entry with that action and that
\* resource id, also when the audit write fails.
C21_MutationHasAuditEntry ==
  [][\A e \in EmployeeIds :
       /\ (e \in DOMAIN employees' /\ e \notin DOMAIN employees)
            => Logged("CREATE", "employee", e)
       /\ (e \in DOMAIN employees /\ e \notin DOMAIN employees')
            => Logged("DELETE", "employee", e)
       /\ (e \in DOMAIN employees /\ e \in DOMAIN employees'
             /\ employees'[e] # employees[e])
            => Logged("UPDATE", "employee", e)
    ]_vars

\* C22: the audit log is append-only: every step keeps the entries that
\* exist, with every field, and only adds entries after them.
C22_AuditLogAppendOnly ==
  [][/\ Len(audit_logs') >= Len(audit_logs)
     /\ SubSeq(audit_logs', 1, Len(audit_logs)) = audit_logs]_vars

\* C25: no step taken by a user whose role is employee or manager leaves
\* that user's own profile with the role hr or admin.
C25_NoSelfPromotion ==
  [][\A u \in Users :
       (role[u] \in {"employee", "manager"} /\ last'.user = u)
         => role'[u] \notin {"hr", "admin"}]_vars

\* C27: every audit entry a step adds, by the profile trigger or through
\* log_audit_event, names as user_id the caller who performed the step.
C27_AuditActorIsCaller ==
  [][\A i \in (Len(audit_logs) + 1)..Len(audit_logs') :
       audit_logs'[i].user_id = last'.user]_vars

\* handlers that send a notification after their own statement
NotifyingOps ==
  {"handleFileUpload", "onSubmit", "handleCreateEmployee",
   "handleUpdateEmployee"}

\* C23: when the notification of a task submission, an onboarding-details
\* submission or an employee creation or update fails, the handler still
\* reports success and what it wrote stays written.
C23_NotificationFailureIsHarmless ==
  [][(last'.op \in NotifyingOps
        /\ last'.notification \notin {"none", "not sent"})
       => /\ last'.outcome = "success"
          /\ notifications' = notifications
          /\ last'.op = "handleCreateEmployee"
               => "e_new" \in DOMAIN employees'
          /\ last'.op = "onSubmit" => Len(details') = Len(details) + 1
    ]_vars

C23_Witness ==
  /\ last.op = "handleCreateEmployee"
  /\ last.notification = "FetchError"
  /\ last.outcome = "success"
  /\ "e_new" \in DOMAIN employees
  /\ notifications = <<>>

\* C24: in every reachable state a task's completion flag is set exactly
\* when its status is completed or verified.
C24_FlagMatchesStatus ==
  \A t \in DOMAIN checklist :
    checklist[t].is_completed
      <=> checklist[t].status \in {"completed", "verified"}

\* C26: for an actor who is neither admin nor HR and whose role has no
\* read permission on users, the user management and the employee
\* management components offer no management actions.
C26_NoManagementWithoutPermission ==
  (/\ last.op \in {"UserManagement", "EmployeeManagement"}
   /\ last.role \notin {"admin", "hr"}
   /\ ~last.users_read)
    => ~last.actions

\* an open task with a due date before the time of the read
DatedOverdue(t) == checklist[t].due_date # NoDate /\ Overdue(t)

\* C28: no aggregation counts a task without a due date as overdue: the
\* overdue of getTaskStats and the overdue_tasks of every record of the
\* sessions query count no more than the open tasks that have a due date
\* before the time of the read.
C28_NoDueDateNeverOverdue ==
  /\ last.op = "useOnboarding"
       => last.taskStats.overdue
            <= Cardinality({t \in last.tasks : DatedOverdue(t)})
  /\ last.op = "sessions"
       => \A e \in DOMAIN last.sessions :
            last.sessions[e].stats.overdue_tasks
              <= Cardinality({t \in last.data :
                   checklist[t].employee_id = e /\ DatedOverdue(t)})

\* C29: whenever the organisation-wide hook is not loading, its cached
\* stats describe its cached task list: total_tasks is the number of cached
\* tasks and completed_tasks the number of cached tasks with is_completed.
C29_StatsDescribeCachedTasks ==
  (cache.state = "mounted" /\ ~cache.loading)
    => /\ cache.stats.total_tasks = Cardinality(DOMAIN cache.tasks)
       /\ cache.stats.completed_tasks
            = Cardinality({t \in DOMAIN cache.tasks :
                             cache.tasks[t].is_completed})

\* C30: an insert of a support ticket that names no ticket number always
\* succeeds, and the committed tickets have pairwise different numbers.
C30_GeneratedNumberSucceeds ==
  /\ (last.op = "commitTicket" /\ ~last.explicit)
       => last.outcome = "success"
  /\ \A i, k \in DOMAIN tickets :
       (tickets[i].committed /\ tickets[k].committed /\ i # k)
         => tickets[i].ticket_number # tickets[k].ticket_number

====
